---- MODULE Spec2Model ----
(***************************************************************************)
(* Faculty status backend (backend/server.js, backend/db/faculty.js):      *)
(* the status resolver getCurrentStatus, the fire-and-forget sweep         *)
(* clearExpiredOverride, the 3-second scheduler updateStatuses, the        *)
(* reconcile pass syncFacultyFromJSON and the admin override write         *)
(* bulkUpdateOverrides, all acting on the MongoDB collection 'faculty'.    *)
(*                                                                         *)
(* Encoding of JavaScript values:                                          *)
(*  - a document is a function from the names of the fields it has to      *)
(*    their values, so that $set merges fields and a missing field is a    *)
(*    name outside DOMAIN;                                                 *)
(*  - a time-of-day string such as "09:00" is the sequence of its UTF-16   *)
(*    code units, compared as JavaScript compares strings;                 *)
(*  - an instant (Date) is a number of minutes since a Monday 00:00 in     *)
(*    Asia/Dhaka; NullDate stands for null/undefined in a Date field and   *)
(*    NULL for null/undefined in a string field;                           *)
(*  - a bare string stored in the status field is [str |-> s], the object  *)
(*    getCurrentStatus returns is a record with a status field.            *)
(***************************************************************************)
EXTENDS Integers, Sequences, FiniteSets, TLC

VARIABLES
    now,            \* the wall clock (new Date())
    store,          \* collection 'faculty': sequence of documents, insertion order
    source,         \* parsed content of faculty.json: sequence of entries
    ticks,          \* executions of updateStatuses, by slot
    pendingClears,  \* clearExpiredOverride calls issued and not yet settled: name -> count
    sync,           \* the execution of syncFacultyFromJSON
    adminWrites,    \* number of POST /api/update and DELETE requests so far
    hist,           \* history of the passes and of the ticks (observation only)
    callRet,        \* return value of a direct call of getCurrentStatus: <<>> or <<result>>
    settings,       \* collection 'settings': key -> value
    mtime,          \* modification time of faculty.json
    req,            \* the GET /api/faculty request being served
    proc,           \* where the process is: in startup(), running, in the SIGINT handler, exited
    auth            \* the admin's token and the answer to the admin's last request

vars == <<now, store, source, ticks, pendingClears, sync, adminWrites, hist, callRet, settings, mtime, req, proc, auth>>

----------------------------------------------------------------------------
(* Bounds of the model *)

\* number of times the clock advances
MaxClock == 1
\* number of unsettled clearExpiredOverride calls per name
MaxPending == 1
\* number of override writes the admin sends
MaxAdminWrites == 1

\* waits of the admin between requests
MaxWaits == 4

\* null / undefined in a string-valued field
NULL == "null"
\* null / undefined in a Date-valued field (faculty.js:58 "... : null")
NullDate == 0

Names == {"A", "B"}

----------------------------------------------------------------------------
(* Clock / calendar adapter: Intl.DateTimeFormat in Asia/Dhaka *)

DayNames == <<"Monday", "Tuesday", "Wednesday", "Thursday", "Friday", "Saturday", "Sunday">>

\* weekday: 'long' of an instant
DayOf(t) == DayNames[((t \div 1440) % 7) + 1]

\* "HH:MM" as code units: '0' is 48, ':' is 58
Fmt(hh, mm) == <<48 + (hh \div 10), 48 + (hh % 10), 58, 48 + (mm \div 10), 48 + (mm % 10)>>

\* hour: '2-digit', minute: '2-digit', hour12: false of an instant
TimeStr(t) == Fmt((t % 1440) \div 60, t % 60)

\* the instant of a weekday (0 = Monday) and a time of day
At(d, hh, mm) == 10080 + d * 1440 + hh * 60 + mm

\* JavaScript a < b on strings: the first differing code unit decides, a proper prefix is smaller
StrLess(a, b) ==
    \E i \in 1..(Len(a) + 1) :
        /\ i <= Len(b)
        /\ \A j \in 1..(i - 1) : a[j] = b[j]
        /\ (i = Len(a) + 1 \/ a[i] < b[i])

StrGeq(a, b) == ~StrLess(a, b)

----------------------------------------------------------------------------
(* Documents *)

EmptyDoc == [f \in {} |-> NULL]

\* d.f of a string-valued field, undefined read as NULL
FieldOr(d, f, default) == IF f \in DOMAIN d THEN d[f] ELSE default

\* JavaScript truthiness of a string-or-null value
TruthyStr(x) == x \notin {NULL, ""}

\* JavaScript truthiness of a Date-or-null value
TruthyDate(x) == x # NullDate

----------------------------------------------------------------------------
(* FacultyDB.getAllFaculty: the projection of the collection (faculty.js:17-35) *)

\* x || 50 of a number: 0 is falsy
Or50(x) == IF x = 0 THEN 50 ELSE x

MapFaculty(f) ==
    [ name           |-> FieldOr(f, "name", NULL),
      precedence     |-> Or50(FieldOr(f, "precedence", 50)),
      weekend        |-> FieldOr(f, "weekend", {}),
      officeHours    |-> FieldOr(f, "officeHours", EmptyDoc),
      classTimes     |-> FieldOr(f, "classTimes", EmptyDoc),
      status         |-> FieldOr(f, "status", [str |-> "off_duty"]),
      manualOverride |-> FieldOr(f, "manualOverride", NULL),
      overrideExpiry |-> FieldOr(f, "overrideExpiry", NullDate) ]

GetAllFaculty(coll) == [i \in 1..Len(coll) |-> MapFaculty(coll[i])]

----------------------------------------------------------------------------
(* getCurrentStatus (server.js:724-777) *)

\* a variant that tests the expiry alone
OverridePresentExpiryOnly(faculty) == TruthyDate(faculty.overrideExpiry)

\* line 738: if (faculty.manualOverride && faculty.overrideExpiry)
OverridePresent(faculty) ==
    TruthyStr(faculty.manualOverride) /\ TruthyDate(faculty.overrideExpiry)

\* lines 738-741: the override branch returns
OverrideActive(faculty, t) == OverridePresent(faculty) /\ t < faculty.overrideExpiry

\* a variant that never sweeps
ClearIssuedNever(faculty, t) == FALSE

\* lines 742-745: the else branch calls clearExpiredOverride(faculty.name)
ClearIssued(faculty, t) == OverridePresent(faculty) /\ ~(t < faculty.overrideExpiry)

\* line 757: cls.start < cls.end && timeStr >= cls.start && timeStr < cls.end
ClassMatches(cls, timeStr) ==
    /\ StrLess(cls["start"], cls["end"])
    /\ StrGeq(timeStr, cls["start"])
    /\ StrLess(timeStr, cls["end"])

\* x || null
OrNull(x) == IF TruthyStr(x) THEN x ELSE NULL

\* lines 758-762
InClass(cls) ==
    [ status |-> "in_class",
      room   |-> OrNull(FieldOr(cls, "room", NULL)),
      batch  |-> OrNull(FieldOr(cls, "batch", NULL)) ]

\* a variant in which the last matching interval decides
ScanClassesLast(classes, i, timeStr) ==
    LET hits == {k \in i..Len(classes) : ClassMatches(classes[k], timeStr)}
    IN  IF hits = {} THEN <<>>
        ELSE <<InClass(classes[CHOOSE k \in hits : \A j \in hits : j <= k])>>

\* lines 756-764: for (const cls of classes), from position i on; <<>> when the loop ends
RECURSIVE ScanClasses(_, _, _)
ScanClasses(classes, i, timeStr) ==
    IF i > Len(classes) THEN <<>>
    ELSE IF ClassMatches(classes[i], timeStr) THEN <<InClass(classes[i])>>
    ELSE ScanClasses(classes, i + 1, timeStr)

\* a variant with the closed interval [start, end]
OfficeMatchesClosed(faculty, day, timeStr) ==
    /\ day \in DOMAIN faculty.officeHours
    /\ Len(faculty.officeHours[day]) = 2
    /\ LET start == faculty.officeHours[day][1]
           end   == faculty.officeHours[day][2]
       IN  StrLess(start, end) /\ StrGeq(timeStr, start) /\ StrGeq(end, timeStr)

\* lines 768-774
OfficeMatches(faculty, day, timeStr) ==
    /\ day \in DOMAIN faculty.officeHours
    /\ Len(faculty.officeHours[day]) = 2
    /\ LET start == faculty.officeHours[day][1]
           end   == faculty.officeHours[day][2]
       IN  StrLess(start, end) /\ StrGeq(timeStr, start) /\ StrLess(timeStr, end)

\* a variant that looks at the classes before the weekend
ScheduleStatusClassFirst(faculty, t) ==
    LET day     == DayOf(t)
        timeStr == TimeStr(t)
        classes == IF day \in DOMAIN faculty.classTimes THEN faculty.classTimes[day] ELSE <<>>
        hit     == ScanClasses(classes, 1, timeStr)
    IN  IF hit # <<>> THEN hit[1]
        ELSE IF day \in faculty.weekend THEN [status |-> "on_weekend"]
        ELSE IF OfficeMatches(faculty, day, timeStr) THEN [status |-> "at_dept"]
        ELSE [status |-> "off_duty"]

\* lines 748-776: the rules after the override check
ScheduleStatus(faculty, t) ==
    LET day     == DayOf(t)
        timeStr == TimeStr(t)
        classes == IF day \in DOMAIN faculty.classTimes THEN faculty.classTimes[day] ELSE <<>>
        hit     == ScanClasses(classes, 1, timeStr)
    IN  IF day \in faculty.weekend THEN [status |-> "on_weekend"]
        ELSE IF hit # <<>> THEN hit[1]
        ELSE IF OfficeMatches(faculty, day, timeStr) THEN [status |-> "at_dept"]
        ELSE [status |-> "off_duty"]

\* a variant that looks at the weekend before the override
GetCurrentStatusWeekendFirst(faculty, t) ==
    IF DayOf(t) \in faculty.weekend THEN [status |-> "on_weekend"]
    ELSE IF OverrideActive(faculty, t) THEN [status |-> faculty.manualOverride]
    ELSE ScheduleStatus(faculty, t)

GetCurrentStatus(faculty, t) ==
    IF OverrideActive(faculty, t) THEN [status |-> faculty.manualOverride]
    ELSE ScheduleStatus(faculty, t)

----------------------------------------------------------------------------
(* The collection: updateOne, insertOne (MongoDB driver) *)

\* $set: the fields of u replace or extend those of d
SetFields(d, u) == [f \in (DOMAIN d) \cup (DOMAIN u) |-> IF f \in DOMAIN u THEN u[f] ELSE d[f]]

\* positions of the documents matching { name: n }
Matching(coll, n) == {i \in 1..Len(coll) : FieldOr(coll[i], "name", NULL) = n}

\* the document updateOne({ name: n }) acts on: the first match, 0 when there is none
FirstMatch(coll, n) ==
    IF Matching(coll, n) = {} THEN 0
    ELSE CHOOSE i \in Matching(coll, n) : \A j \in Matching(coll, n) : i <= j

\* a variant that keeps nothing but the document it has written
UpdateOneDropRest(coll, n, u) ==
    IF FirstMatch(coll, n) = 0 THEN coll
    ELSE << SetFields(coll[FirstMatch(coll, n)], u) >>

\* updateOne({ name: n }, { $set: u }) without upsert
UpdateOne(coll, n, u) ==
    IF FirstMatch(coll, n) = 0 THEN coll
    ELSE [coll EXCEPT ![FirstMatch(coll, n)] = SetFields(@, u)]

\* result.modifiedCount of that updateOne
ModifiedCount(coll, n, u) == IF UpdateOne(coll, n, u) = coll THEN 0 ELSE 1

\* a variant that replaces the document by the fields it writes
UpdateFacultyStatusReplace(coll, n, statusObj, t) ==
    IF FirstMatch(coll, n) = 0 THEN coll
    ELSE [coll EXCEPT ![FirstMatch(coll, n)] = [name |-> n, status |-> statusObj, updatedAt |-> t]]

\* a variant whose updateOne upserts
UpdateFacultyStatusUpsert(coll, n, statusObj, t) ==
    IF FirstMatch(coll, n) = 0
    THEN Append(coll, [name |-> n, status |-> statusObj, updatedAt |-> t])
    ELSE UpdateOne(coll, n, [status |-> statusObj, updatedAt |-> t])

\* FacultyDB.updateFacultyStatus (faculty.js:37-49)
UpdateFacultyStatus(coll, n, statusObj, t) ==
    UpdateOne(coll, n, [status |-> statusObj, updatedAt |-> t])

\* overrideExpiry ? new Date(overrideExpiry) : null
ToDate(x) == IF TruthyDate(x) THEN x ELSE NullDate

\* FacultyDB.updateFacultyOverride (faculty.js:51-64)
UpdateFacultyOverride(coll, n, manualOverride, overrideExpiry, t) ==
    UpdateOne(coll, n, [manualOverride |-> manualOverride,
                        overrideExpiry |-> ToDate(overrideExpiry),
                        updatedAt      |-> t])

\* a variant whose updateOne upserts
BulkUpdateOverrideUpsert(coll, update, t) ==
    IF FirstMatch(coll, update.name) = 0
    THEN Append(coll, [name           |-> update.name,
                       manualOverride |-> update.manualOverride,
                       overrideExpiry |-> ToDate(update.overrideExpiry),
                       updatedAt      |-> t])
    ELSE UpdateOne(coll, update.name, [manualOverride |-> update.manualOverride,
                                       overrideExpiry |-> ToDate(update.overrideExpiry),
                                       updatedAt      |-> t])

\* FacultyDB.bulkUpdateOverrides (faculty.js:66-83), one operation of the bulk write
BulkUpdateOverride(coll, update, t) ==
    UpdateOne(coll, update.name, [manualOverride |-> update.manualOverride,
                                  overrideExpiry |-> ToDate(update.overrideExpiry),
                                  updatedAt      |-> t])

----------------------------------------------------------------------------
(* syncFacultyFromJSON (server.js:92-187): what it computes *)

\* lines 114-124: the override of the last document of that name that holds an unexpired one
Stashable(f, t) ==
    /\ TruthyStr(FieldOr(f, "manualOverride", NULL))
    /\ TruthyDate(FieldOr(f, "overrideExpiry", NullDate))
    /\ f["overrideExpiry"] > t

OverrideMap(coll, t) ==
    LET held(n) == {i \in Matching(coll, n) : Stashable(coll[i], t)}
        last(n) == CHOOSE i \in held(n) : \A j \in held(n) : j <= i
    IN  [n \in {m \in Names : held(m) # {}} |->
            [manualOverride |-> coll[last(n)]["manualOverride"],
             overrideExpiry |-> coll[last(n)]["overrideExpiry"]]]

\* a variant that does not re-apply the stashed override
FacultyDataNoStash(faculty, overrideMap, t) == SetFields(faculty, [updatedAt |-> t])

\* lines 137-147: the fields the pass writes for an entry
FacultyData(faculty, overrideMap, t) ==
    LET stamped == SetFields(faculty, [updatedAt |-> t])
    IN  IF faculty["name"] \in DOMAIN overrideMap
        THEN SetFields(stamped, overrideMap[faculty["name"]])
        ELSE stamped

\* lines 168-169: what an insert adds
NewFaculty(faculty, facultyData, t) ==
    SetFields(facultyData,
              [createdAt |-> t,
               status    |-> IF "status" \in DOMAIN faculty THEN faculty["status"]
                             ELSE [str |-> "off_duty"]])

(* Inputs: the contents faculty.json takes, the override writes an admin sends *)

StartInstant == At(0, 9, 0)

\* the clock moves in steps of one hour
NextInstant(t) == t + 60

LastInstant == StartInstant + 60 * MaxClock

MondaySchedule ==
    ("weekend" :> {"Friday"})
    @@ ("officeHours" :> ("Monday" :> <<Fmt(9, 0), Fmt(17, 0)>>))
    @@ ("classTimes" :> ("Monday" :> << ("start" :> Fmt(10, 0)) @@ ("end" :> Fmt(11, 0))
                                        @@ ("room" :> "301") >>))

EntryA == ("name" :> "A") @@ MondaySchedule

\* an entry that carries override fields and a status of its own
EntryAOverride ==
    ("name" :> "A") @@ ("weekend" :> {"Sunday"})
    @@ ("manualOverride" :> "ext") @@ ("overrideExpiry" :> At(6, 0, 0))
    @@ ("status" :> [status |-> "at_dept"])

EntryB ==
    ("name" :> "B") @@ ("officeHours" :> ("Monday" :> <<Fmt(9, 0), Fmt(11, 0)>>))
    @@ ("precedence" :> 2)

\* an entry without a name
EntryNoName == ("weekend" :> {"Friday"})

\* an entry that carries a createdAt of its own
EntryBCreated == EntryB @@ ("createdAt" :> At(5, 0, 0))

Sources == { <<EntryA>>, <<EntryAOverride, EntryNoName, EntryB>>, <<EntryBCreated>> }

\* the bodies of POST /api/update at instant t: an override of one hour for A
OverrideStrings == {"on_leave"}

AdminUpdates(t) ==
    [name : {"A"}, manualOverride : OverrideStrings, overrideExpiry : {NextInstant(t)}]

\* the bodies of POST /api/admin/faculty and PUT /api/admin/faculty/:name
AdminBodies == {EntryA, EntryAOverride, EntryB, EntryBCreated}

\* the collection a completed pass over <<EntryA, EntryB>> leaves in an empty database
SyncedStore ==
    << NewFaculty(EntryA, FacultyData(EntryA, EmptyDoc, StartInstant), StartInstant),
       NewFaculty(EntryB, FacultyData(EntryB, EmptyDoc, StartInstant), StartInstant) >>


----------------------------------------------------------------------------
(* State *)

\* the executions of updateStatuses that may run at once
TickIds == {1, 2}

NoStatus == [status |-> NULL]

\* exp: the exp claim of the token the admin holds, NullDate without a token
\* rolling: the expiry a session renewed by every request made in time would have
\*          (observation only)
\* route, answer: the admin's last request and the status it was answered with
IdleAuth == [exp |-> NullDate, rolling |-> NullDate, route |-> "none", answer |-> 0]

\* after the execution has ended: failed tells that it ended in the catch of line 797,
\* left counts the records of its snapshot it never reached
IdleTick ==
    [pc |-> "idle", snapshot |-> <<>>, idx |-> 0, statusObj |-> NoStatus,
     swept |-> {}, failed |-> FALSE, left |-> 0]

IdleSync ==
    [pc |-> "idle", jsonData |-> <<>>, existingNames |-> {}, overrideMap |-> EmptyDoc,
     idx |-> 0, insertedCount |-> 0, updatedCount |-> 0, skippedCount |-> 0]

\* GET /api/faculty: jsonModified is the mtime read at line 199
IdleReq == [pc |-> "idle", jsonModified |-> NullDate, ran |-> FALSE, answer |-> 0]

\* clean:  nothing but the running pass has written the store or the file since it began
\* quiet:  the last pass ran clean to its end, and nothing has been written since
\* second: the running (or last) pass began in a quiet state; after is the store it found
\* before: the store as the running (or last) pass found it when it began
\* stale:   the running executions of updateStatuses that began before the last change of
\*          an override, of a schedule or of the clock
\* faults:  the kinds of store call of the scheduler that have been rejected so far
\* lastClear: what the last call of clearExpiredOverride to settle met: a rejection, no
\*          record of the name, a record with an override field set, or one with none
\* missed:  the names for which a status write of updateStatuses has matched no record
\* settled: the names whose status an execution that began after the last such change,
\*          and ran to its end, has written
NoHist ==
    [clean |-> FALSE, quiet |-> FALSE, second |-> FALSE, after |-> <<>>, before |-> <<>>,
     stale |-> {}, settled |-> {}, faults |-> {}, lastClear |-> "none", missed |-> {}]

Init ==
    /\ now = StartInstant
    /\ store = <<>>
    /\ source \in Sources
    /\ ticks = [t \in TickIds |-> IdleTick]
    /\ pendingClears = [n \in Names |-> 0]
    /\ sync = IdleSync
    /\ adminWrites = 0
    /\ hist = NoHist
    /\ callRet = <<>>
    /\ settings = EmptyDoc
    /\ mtime = StartInstant
    /\ req = IdleReq
    /\ proc = "running"
    /\ auth = IdleAuth

\* a write by anything but the reconcile pass ends the quiet period after a pass
Disturbed ==
    [hist EXCEPT !.clean = FALSE, !.quiet = FALSE, !.second = FALSE, !.after = <<>>]

----------------------------------------------------------------------------
(* The clock *)

AdvanceClock ==
    /\ now < LastInstant
    /\ now' = NextInstant(now)
    /\ hist' = [hist EXCEPT !.stale = {t \in TickIds : ticks[t].pc \notin {"idle", "done"}},
                            !.settled = {}]
    /\ UNCHANGED <<store, source, ticks, pendingClears, sync, adminWrites, callRet, settings, mtime, req, proc, auth>>

----------------------------------------------------------------------------
(* clearExpiredOverride (server.js:779-785): the write issued at line 744 settles *)

\* a variant that clears manualOverride and leaves overrideExpiry
ClearManualOnly(coll, n, t) == UpdateOne(coll, n, [manualOverride |-> NULL, updatedAt |-> t])

\* a variant that counts its calls in the record
ClearCounting(coll, n, t) ==
    IF FirstMatch(coll, n) = 0 THEN coll
    ELSE UpdateOne(coll, n, [manualOverride |-> NULL, overrideExpiry |-> NullDate,
                             updatedAt |-> t,
                             clears |-> FieldOr(coll[FirstMatch(coll, n)], "clears", 0) + 1])

\* line 781: facultyDB.updateFacultyOverride(name, null, null)
ClearExpiredOverride(coll, n, t) == UpdateFacultyOverride(coll, n, NULL, NullDate, t)

\* what the write of line 781 meets in the store
Met(coll, n) ==
    IF FirstMatch(coll, n) = 0 THEN "absent"
    ELSE IF /\ FieldOr(coll[FirstMatch(coll, n)], "manualOverride", NULL) = NULL
            /\ FieldOr(coll[FirstMatch(coll, n)], "overrideExpiry", NullDate) = NullDate
         THEN "null"
         ELSE "set"

ClearApply(n) ==
    /\ proc \in {"running", "closing"}
    /\ pendingClears[n] > 0
    /\ pendingClears' = [pendingClears EXCEPT ![n] = @ - 1]
    /\ \/ /\ store' = ClearExpiredOverride(store, n, now)
          /\ hist' = [Disturbed EXCEPT !.lastClear = Met(store, n)]
       \/ \* the write rejects: caught and logged at line 783
          /\ hist' = [hist EXCEPT !.faults = @ \cup {"clear"}, !.lastClear = "rejected"]
          /\ UNCHANGED store
    /\ UNCHANGED <<now, source, ticks, sync, adminWrites, callRet, settings, mtime, req, proc, auth>>

----------------------------------------------------------------------------
(* updateStatuses (server.js:787-800), started at lines 863-864 *)

Busy(t) == ticks[t].pc \notin {"idle", "done"}

\* an override, a schedule or the clock changes: what resolution gives may change with it
Changed(h) == [h EXCEPT !.stale = {t \in TickIds : Busy(t)}, !.settled = {}]

\* startup() has reached lines 863-864 and process.exit has not been called
Started == proc \in {"running", "closing"}

\* the process lives: no rejection has escaped a handler (an unhandled rejection ends it)
Alive == \A u \in TickIds : ticks[u].pc # "crashed"

\* the call at line 863 or an expiry of the interval of line 864: nothing looks at a running tick
TickStart(t) ==
    /\ Started
    /\ Alive
    /\ ~Busy(t)
    /\ \A u \in TickIds : u < t => Busy(u)
    /\ ticks' = [ticks EXCEPT ![t] = [IdleTick EXCEPT !.pc = "read"]]
    /\ hist' = [hist EXCEPT !.stale = @ \ {t}]
    /\ UNCHANGED <<now, store, source, pendingClears, sync, adminWrites, callRet, settings, mtime, req, proc, auth>>

\* the loop of line 791 is over: line 796
FinishIfOver(tk) ==
    IF tk.idx > Len(tk.snapshot) THEN [IdleTick EXCEPT !.pc = "done"] ELSE tk

\* a variant without the catch: the rejection escapes updateStatuses
AbortUncaught(tk) ==
    [IdleTick EXCEPT !.pc = "crashed", !.failed = TRUE, !.left = Len(tk.snapshot) - tk.idx]

\* the catch of lines 797-799, reached from the record at tk.idx
Abort(tk) ==
    [IdleTick EXCEPT !.pc = "done", !.failed = TRUE, !.left = Len(tk.snapshot) - tk.idx]

\* line 789: await facultyDB.getAllFaculty()
TickRead(t) ==
    /\ Started
    /\ ticks[t].pc = "read"
    /\ \/ /\ ticks' = [ticks EXCEPT ![t] =
                              FinishIfOver([@ EXCEPT !.pc = "resolve",
                                                     !.snapshot = GetAllFaculty(store),
                                                     !.idx = 1])]
          /\ UNCHANGED hist
       \/ \* the read rejects
          /\ ticks' = [ticks EXCEPT ![t] = Abort(@)]
          /\ hist' = [hist EXCEPT !.faults = @ \cup {"read"}]
    /\ UNCHANGED <<now, store, source, pendingClears, sync, adminWrites, callRet, settings, mtime, req, proc, auth>>

\* line 792: getCurrentStatus(faculty), which may call clearExpiredOverride (line 744)
TickResolve(t) ==
    /\ Started
    /\ ticks[t].pc = "resolve"
    /\ LET faculty == ticks[t].snapshot[ticks[t].idx]
           clear   == ClearIssued(faculty, now)
       IN  /\ clear => pendingClears[faculty.name] < MaxPending
           /\ ticks' = [ticks EXCEPT ![t] =
                            [@ EXCEPT !.pc = "write",
                                      !.statusObj = GetCurrentStatus(faculty, now),
                                      !.swept = IF clear THEN @ \cup {faculty.name} ELSE @]]
           /\ pendingClears' = IF clear
                               THEN [pendingClears EXCEPT ![faculty.name] = @ + 1]
                               ELSE pendingClears
    /\ UNCHANGED <<now, store, source, sync, adminWrites, hist, callRet, settings, mtime, req, proc, auth>>

\* the observation h after a status write for n: whether the filter matched a record
Matched(h, n) ==
    IF FirstMatch(store, n) = 0 THEN [h EXCEPT !.missed = @ \cup {n}] ELSE h

\* line 793: await facultyDB.updateFacultyStatus(faculty.name, statusObj)
TickWrite(t) ==
    /\ Started
    /\ ticks[t].pc = "write"
    /\ LET faculty == ticks[t].snapshot[ticks[t].idx]
       IN  \/ /\ store' = UpdateFacultyStatus(store, faculty.name, ticks[t].statusObj, now)
              /\ ticks' = [ticks EXCEPT ![t] =
                               FinishIfOver([@ EXCEPT !.pc = "resolve",
                                                      !.idx = @ + 1,
                                                      !.statusObj = NoStatus])]
              /\ hist' = Matched(IF ticks[t].idx = Len(ticks[t].snapshot) /\ t \notin hist.stale
                                 THEN [Disturbed EXCEPT
                                          !.settled = {ticks[t].snapshot[i].name :
                                                          i \in 1..Len(ticks[t].snapshot)}]
                                 ELSE Disturbed,
                                 faculty.name)
           \/ \* the write rejects: the throw leaves the loop for the catch of line 797
              /\ ticks' = [ticks EXCEPT ![t] = Abort(@)]
              /\ hist' = [hist EXCEPT !.faults = @ \cup {"write"}]
              /\ UNCHANGED store
    /\ UNCHANGED <<now, source, pendingClears, sync, adminWrites, callRet, settings, mtime, req, proc, auth>>

----------------------------------------------------------------------------
(* syncFacultyFromJSON (server.js:92-187): its steps *)

\* fs.existsSync(jsonPath) (lines 95 and 194): a file that is not there has no mtime
SourceExists == mtime # NullDate

\* line 95 finds the file, line 102 parses it; without the file the call returns (96-97)
BeginPass ==
    /\ sync.pc \in {"idle", "done", "failed"}
    /\ sync' = IF SourceExists
               THEN [IdleSync EXCEPT !.pc = "read", !.jsonData = source]
               ELSE [IdleSync EXCEPT !.pc = "done"]
    /\ hist' = [hist EXCEPT !.clean  = TRUE,
                            !.quiet  = FALSE,
                            !.second = hist.quiet,
                            !.after  = IF hist.quiet THEN store ELSE <<>>,
                            !.before = store]

\* a call that no request awaits (line 852)
SyncStart ==
    /\ req.pc = "idle"
    /\ BeginPass
    /\ UNCHANGED <<now, store, source, ticks, pendingClears, adminWrites, callRet, settings, mtime, req, proc, auth>>

\* lines 107-124
SyncRead ==
    /\ sync.pc = "read"
    /\ \/ /\ sync' = [sync EXCEPT !.pc = "loop",
                                  !.existingNames = {FieldOr(store[i], "name", NULL) : i \in 1..Len(store)},
                                  !.overrideMap = OverrideMap(store, now),
                                  !.idx = 1]
          /\ UNCHANGED hist
       \/ \* the read rejects: lines 183-185
          /\ sync' = [sync EXCEPT !.pc = "failed"]
          /\ hist' = [hist EXCEPT !.quiet = FALSE]
    /\ UNCHANGED <<now, store, source, ticks, pendingClears, adminWrites, callRet, settings, mtime, req, proc, auth>>

\* a variant of the check below that lets $set write a path $setOnInsert names
PathConflictNever(facultyData) == FALSE

\* lines 153-156: one update document names createdAt under $setOnInsert and every field of
\* facultyData under $set; the store rejects an update whose operators name the same path
PathConflict(facultyData) == "createdAt" \in DOMAIN facultyData

\* a variant in which an entry without a name ends the pass
SkipEntryAborts(s) == [s EXCEPT !.pc = "failed"]

\* lines 131-135: skippedCount++; continue
SkipEntry(s) == [s EXCEPT !.idx = @ + 1, !.skippedCount = @ + 1]

\* lines 130-175: one entry of the file
SyncEntry ==
    /\ sync.pc = "loop"
    /\ sync.idx <= Len(sync.jsonData)
    /\ LET faculty     == sync.jsonData[sync.idx]
           name        == FieldOr(faculty, "name", NULL)
           facultyData == FacultyData(faculty, sync.overrideMap, now)
       IN  \/ \* lines 131-135
              /\ ~TruthyStr(name)
              /\ sync' = SkipEntry(sync)
              /\ UNCHANGED <<store, hist>>
           \/ \* lines 149-165
              /\ TruthyStr(name)
              /\ name \in sync.existingNames
              /\ ~PathConflict(facultyData)
              /\ store' = UpdateOne(store, name, facultyData)
              /\ sync' = IF ModifiedCount(store, name, facultyData) > 0
                         THEN [sync EXCEPT !.idx = @ + 1, !.updatedCount = @ + 1]
                         ELSE [sync EXCEPT !.idx = @ + 1, !.skippedCount = @ + 1]
              /\ hist' = Changed(hist)
           \/ \* lines 166-174
              /\ TruthyStr(name)
              /\ name \notin sync.existingNames
              /\ store' = Append(store, NewFaculty(faculty, facultyData, now))
              /\ sync' = [sync EXCEPT !.idx = @ + 1, !.insertedCount = @ + 1]
              /\ hist' = Changed(hist)
           \/ \* the write rejects: lines 183-185
              /\ TruthyStr(name)
              /\ sync' = [sync EXCEPT !.pc = "failed"]
              /\ hist' = [hist EXCEPT !.quiet = FALSE]
              /\ UNCHANGED store
    /\ UNCHANGED <<now, source, ticks, pendingClears, adminWrites, callRet, settings, mtime, req, proc, auth>>

\* lines 177-181: the counts are logged, countDocuments is awaited
SyncFinish ==
    /\ sync.pc = "loop"
    /\ sync.idx > Len(sync.jsonData)
    /\ \/ /\ sync' = [sync EXCEPT !.pc = "done"]
          /\ hist' = [hist EXCEPT !.quiet = hist.clean]
       \/ /\ sync' = [sync EXCEPT !.pc = "failed"]
          /\ hist' = [hist EXCEPT !.quiet = FALSE]
    /\ UNCHANGED <<now, store, source, ticks, pendingClears, adminWrites, callRet, settings, mtime, req, proc, auth>>

----------------------------------------------------------------------------
(* POST /api/update (server.js:254-265) *)

AdminUpdate(update) ==
    /\ adminWrites < MaxAdminWrites
    /\ adminWrites' = adminWrites + 1
    /\ \/ /\ store' = BulkUpdateOverride(store, update, now)
          /\ store' # store
          /\ hist' = Changed(Disturbed)
       \/ \* the bulk write rejects: line 261
          /\ UNCHANGED store
          /\ hist' = Disturbed
    /\ UNCHANGED <<now, source, ticks, pendingClears, sync, callRet, settings, mtime, req, proc, auth>>

\* a name no record and no entry of faculty.json has
Unlisted == "C"

\* the bodies of POST /api/update at instant t, as the route takes them: unchecked
AnyUpdates(t) ==
    [name : {"A", Unlisted}, manualOverride : OverrideStrings \cup {NULL},
     overrideExpiry : {NextInstant(t), NullDate}]

\* d without the fields of fs (delete updateData.status, ...)
Without(d, fs) == [f \in (DOMAIN d) \ fs |-> d[f]]

\* POST /api/admin/faculty (server.js:367-392)
AdminAdd(body) ==
    /\ \/ /\ Matching(store, FieldOr(body, "name", NULL)) = {}
          /\ store' = Append(store,
                             SetFields(body, [createdAt      |-> now,
                                              updatedAt      |-> now,
                                              status         |-> [str |-> "off_duty"],
                                              manualOverride |-> NULL,
                                              overrideExpiry |-> NullDate]))
          /\ hist' = Changed(Disturbed)
       \/ \* the name exists (line 382) or the store rejects (line 388)
          /\ UNCHANGED store
          /\ hist' = Disturbed
    /\ UNCHANGED <<now, source, ticks, pendingClears, sync, adminWrites, callRet, settings, mtime, req, proc, auth>>

\* a variant that deletes no field of the body
UpdateDataKeepsAll(body, t) == SetFields(body, [updatedAt |-> t])

\* lines 399-409: the body, stamped, without the fields the route does not modify
UpdateData(body, t) ==
    Without(SetFields(body, [updatedAt |-> t]),
            {"status", "manualOverride", "overrideExpiry", "createdAt", "_id"})

\* lines 411-417: a body without precedence gets the precedence of the stored record
WithPrecedence(coll, originalName, updateData) ==
    IF /\ "precedence" \notin DOMAIN updateData
       /\ FirstMatch(coll, originalName) # 0
       /\ "precedence" \in DOMAIN coll[FirstMatch(coll, originalName)]
    THEN SetFields(updateData,
                   [precedence |-> coll[FirstMatch(coll, originalName)]["precedence"]])
    ELSE updateData

\* lines 422-427: the name changes and the new name is taken
RenameBlocked(coll, originalName, updateData) ==
    /\ "name" \in DOMAIN updateData
    /\ updateData["name"] # originalName
    /\ Matching(coll, updateData["name"]) # {}

\* lines 399-436: the collection after the route has run without a rejection
EditedStore(coll, originalName, body, t) ==
    LET updateData == WithPrecedence(coll, originalName, UpdateData(body, t))
    IN  IF RenameBlocked(coll, originalName, updateData) THEN coll
        ELSE UpdateOne(coll, originalName, updateData)

\* PUT /api/admin/faculty/:name (server.js:395-445)
AdminEdit(originalName, body) ==
    /\ LET updateData == WithPrecedence(store, originalName, UpdateData(body, now))
       IN  \/ /\ ~RenameBlocked(store, originalName, updateData)
              /\ store' = EditedStore(store, originalName, body, now)
              /\ hist' = Changed(Disturbed)
           \/ \* the new name exists (line 425) or the store rejects (line 441)
              /\ UNCHANGED store
              /\ hist' = Disturbed
    /\ UNCHANGED <<now, source, ticks, pendingClears, sync, adminWrites, callRet, settings, mtime, req, proc, auth>>

\* deleteOne({ name: n }): the first match goes
DeleteOne(coll, n) ==
    IF FirstMatch(coll, n) = 0 THEN coll
    ELSE SubSeq(coll, 1, FirstMatch(coll, n) - 1)
         \o SubSeq(coll, FirstMatch(coll, n) + 1, Len(coll))

\* DELETE /api/admin/faculty/:name (server.js:448-463)
AdminDelete(n) ==
    /\ adminWrites < MaxAdminWrites
    /\ adminWrites' = adminWrites + 1
    /\ \/ /\ store' = DeleteOne(store, n)
          /\ store' # store
          /\ hist' = Changed(Disturbed)
       \/ \* nothing of that name (line 454) or the store rejects (line 459)
          /\ UNCHANGED store
          /\ hist' = Disturbed
    /\ UNCHANGED <<now, source, ticks, pendingClears, sync, callRet, settings, mtime, req, proc, auth>>

\* faculty.json is edited
EditSource(src) ==
    /\ src # source
    /\ source' = src
    /\ mtime' = now
    /\ hist' = Disturbed
    /\ UNCHANGED <<now, store, ticks, pendingClears, sync, adminWrites, callRet, settings, req, proc, auth>>

\* faculty.json is removed or renamed
RemoveSource ==
    /\ SourceExists
    /\ source' = <<>>
    /\ mtime' = NullDate
    /\ hist' = Disturbed
    /\ UNCHANGED <<now, store, ticks, pendingClears, sync, adminWrites, callRet, settings, req, proc, auth>>

\* faculty.json is edited at an instant after its last modification: its mtime changes
EditSourceLater(src) ==
    /\ now > mtime
    /\ EditSource(src)

----------------------------------------------------------------------------
(* GET /api/faculty (server.js:190-229): the check for a newer faculty.json *)

\* a variant of the test that asks only for a missing marker
NeedsSyncUnmarkedOnly == "last_faculty_sync" \notin DOMAIN settings

\* line 201: !lastSync || jsonModified > lastSync
NeedsSync ==
    IF "last_faculty_sync" \in DOMAIN settings
    THEN mtime > settings["last_faculty_sync"]
    ELSE TRUE

\* a variant that records the marker whatever the pass did
MarkerAfterAlways(st, pc, jsonModified) == SetFields(st, [last_faculty_sync |-> jsonModified])

\* lines 203-204: a pass that throws leaves the handler before setSetting is reached
MarkerAfter(st, pc, jsonModified) ==
    IF pc = "done" THEN SetFields(st, [last_faculty_sync |-> jsonModified]) ELSE st

\* lines 193-203: the file is newer than the marker, syncFacultyFromJSON is called
GetStart ==
    /\ proc \in {"running", "closing"}
    /\ req.pc = "idle"
    /\ SourceExists
    /\ NeedsSync
    /\ BeginPass
    /\ req' = [pc |-> "sync", jsonModified |-> mtime, ran |-> TRUE, answer |-> 0]
    /\ UNCHANGED <<now, store, source, ticks, pendingClears, adminWrites, callRet, settings, mtime, proc, auth>>

\* lines 203-204 and 225-228: the pass has ended, the marker is written or the catch answers 500
GetEnd ==
    /\ req.pc = "sync"
    /\ sync.pc \in {"done", "failed"}
    /\ \/ /\ settings' = MarkerAfter(settings, sync.pc, req.jsonModified)
          /\ \E answer \in IF sync.pc = "done" THEN {200, 500} ELSE {500} :
                 req' = [req EXCEPT !.pc = "idle", !.answer = answer]
       \/ \* setSetting rejects
          /\ sync.pc = "done"
          /\ req' = [req EXCEPT !.pc = "idle", !.answer = 500]
          /\ UNCHANGED settings
    /\ UNCHANGED <<now, store, source, ticks, pendingClears, sync, adminWrites, hist, callRet, mtime, proc, auth>>

\* lines 194-201 and 209-224: no file, or a file no newer than the marker; the records are
\* read and sent, or the read rejects and the catch of 225-228 answers 500
GetPlain ==
    /\ proc \in {"running", "closing"}
    /\ req.pc = "idle"
    /\ ~(SourceExists /\ NeedsSync)
    /\ \E answer \in {200, 500} :
           req' = [pc |-> "idle", jsonModified |-> mtime, ran |-> FALSE, answer |-> answer]
    /\ UNCHANGED <<now, store, source, ticks, pendingClears, sync, adminWrites, hist, callRet, settings, mtime, proc, auth>>

----------------------------------------------------------------------------
(* The admin's token: POST /api/login (server.js:231-252), requireAuth (62-82),
   GET /api/check-login (273-300), POST /api/logout (267-271) *)

\* line 13: "8h", in minutes
JWT_EXPIRES_IN == 480

\* the admin lets a third of the token's life pass
Wait ==
    /\ now < StartInstant + MaxWaits * (JWT_EXPIRES_IN \div 3)
    /\ now' = now + (JWT_EXPIRES_IN \div 3)
    /\ UNCHANGED <<store, source, ticks, pendingClears, sync, adminWrites, hist, callRet, settings, mtime, req, proc, auth>>

\* lines 74-76 and 285: the token is verified and nothing is issued; the admin keeps it
KeptToken(exp, t) == exp

\* jwt.verify(token, JWT_SECRET): a token is expired from its exp on
Verifies(exp, t) == exp # NullDate /\ t < exp

\* the session of the summary: every request made before it ran out renews it
Rolled(a, t) == IF t < a.rolling THEN t + JWT_EXPIRES_IN ELSE a.rolling

\* lines 231-252: jwt.sign(payload, JWT_SECRET, { expiresIn: JWT_EXPIRES_IN })
Login(ok) ==
    /\ auth' = IF ok
               THEN [exp |-> now + JWT_EXPIRES_IN, rolling |-> now + JWT_EXPIRES_IN,
                     route |-> "login", answer |-> 200]
               ELSE [auth EXCEPT !.route = "login", !.answer = 401]
    /\ UNCHANGED <<now, store, source, ticks, pendingClears, sync, adminWrites, hist, callRet, settings, mtime, req, proc>>

\* the answer of a route that verifies the token: next() or 200, else 401
Answered(a, route, t) ==
    [exp     |-> IF Verifies(a.exp, t) THEN KeptToken(a.exp, t) ELSE a.exp,
     rolling |-> Rolled(a, t),
     route   |-> route,
     answer  |-> IF Verifies(a.exp, t) THEN 200 ELSE 401]

\* lines 62-82, before any route behind it
RequireAuth ==
    /\ auth' = Answered(auth, "requireAuth", now)
    /\ UNCHANGED <<now, store, source, ticks, pendingClears, sync, adminWrites, hist, callRet, settings, mtime, req, proc>>

\* lines 273-300
CheckLogin ==
    /\ auth' = Answered(auth, "check-login", now)
    /\ UNCHANGED <<now, store, source, ticks, pendingClears, sync, adminWrites, hist, callRet, settings, mtime, req, proc>>

\* lines 267-271: the server does nothing, the client drops the token
Logout ==
    /\ auth' = [IdleAuth EXCEPT !.route = "logout", !.answer = 200]
    /\ UNCHANGED <<now, store, source, ticks, pendingClears, sync, adminWrites, hist, callRet, settings, mtime, req, proc>>

----------------------------------------------------------------------------
(* startup (server.js:803-902) up to the start of the scheduler, and the SIGINT handler
   (905-919). A collection of more than 20 records (817-843) is beyond the bounds. *)

\* updateOne({ name: n }, { $set: u }, { upsert: true })
Upsert(coll, n, u) ==
    IF FirstMatch(coll, n) = 0 THEN Append(coll, u) ELSE UpdateOne(coll, n, u)

\* FacultyDB.migrateFromJSON (faculty.js:117-129): the first k entries of the file upserted
RECURSIVE MigrateEntries(_, _, _, _)
MigrateEntries(coll, jsonData, k, t) ==
    IF k = 0 THEN coll
    ELSE Upsert(MigrateEntries(coll, jsonData, k - 1, t),
                FieldOr(jsonData[k], "name", NULL),
                SetFields(jsonData[k], [createdAt |-> t, updatedAt |-> t]))

\* a variant in which a failed migration or sync ends the process
AfterStepStrict(failed) == IF failed THEN "exited" ELSE "running"

\* lines 858-864: the catch logs, then updateStatuses() and setInterval in either case
AfterStep(failed) == "running"

BootFault(h) == [h EXCEPT !.faults = @ \cup {"boot"}]

\* lines 810-816 and 844-851: what the step is
BootCheck ==
    /\ proc = "boot"
    /\ \/ \* connect, countDocuments or getSetting rejects
          /\ proc' = AfterStep(TRUE)
          /\ hist' = BootFault(hist)
          /\ UNCHANGED sync
       \/ /\ Len(store) = 0
          /\ proc' = "migrate"
          /\ UNCHANGED <<sync, hist>>
       \/ /\ Len(store) > 0
          /\ SourceExists
          /\ "last_faculty_sync" \notin DOMAIN settings
          /\ BeginPass
          /\ proc' = "sync"
       \/ /\ Len(store) > 0
          /\ ~(SourceExists /\ "last_faculty_sync" \notin DOMAIN settings)
          /\ proc' = AfterStep(FALSE)
          /\ UNCHANGED <<sync, hist>>
    /\ UNCHANGED <<now, store, source, ticks, pendingClears, adminWrites, callRet, settings, mtime, req, auth>>

\* line 816: await facultyDB.migrateFromJSON() (faculty.js:106-145)
Migrate ==
    /\ proc = "migrate"
    /\ \/ \* faculty.js:111-114
          /\ ~SourceExists
          /\ proc' = AfterStep(FALSE)
          /\ UNCHANGED <<store, source, settings, mtime, hist>>
       \/ /\ SourceExists
          /\ \E k \in 0..Len(source) :
                /\ store' = MigrateEntries(store, source, k, now)
                /\ \/ \* the upsert of entry k + 1, or setSetting after the last, rejects
                      /\ proc' = AfterStep(TRUE)
                      /\ hist' = BootFault(hist)
                      /\ UNCHANGED <<source, settings, mtime>>
                   \/ \* faculty.js:132-144: the marquee is set, the file renamed
                      /\ k = Len(source)
                      /\ settings' = SetFields(settings, [marquee_text |-> "Welcome"])
                      /\ \/ source' = <<>> /\ mtime' = NullDate
                         \/ UNCHANGED <<source, mtime>>
                      /\ proc' = AfterStep(FALSE)
                      /\ UNCHANGED hist
    /\ UNCHANGED <<now, ticks, pendingClears, sync, adminWrites, callRet, req, auth>>

\* lines 852-854: the pass has ended; the marker is written after a pass that succeeded
BootSyncEnd ==
    /\ proc = "sync"
    /\ sync.pc \in {"done", "failed"}
    /\ \/ /\ sync.pc = "done"
          /\ SourceExists
          /\ settings' = SetFields(settings, [last_faculty_sync |-> mtime])
          /\ proc' = AfterStep(FALSE)
          /\ UNCHANGED hist
       \/ \* the pass has thrown, or statSync or setSetting throws
          /\ proc' = AfterStep(TRUE)
          /\ hist' = BootFault(hist)
          /\ UNCHANGED settings
    /\ UNCHANGED <<now, store, source, ticks, pendingClears, sync, adminWrites, callRet, mtime, req, auth>>

\* SIGINT arrives once the scheduler runs: the handler begins (line 905)
Sigint ==
    /\ proc = "running"
    /\ proc' = "closing"
    /\ UNCHANGED <<now, store, source, ticks, pendingClears, sync, adminWrites, hist, callRet, settings, mtime, req, auth>>

\* lines 909-918: both close() calls have settled, process.exit(0)
ExitProcess ==
    /\ proc = "closing"
    /\ proc' = "exited"
    /\ UNCHANGED <<now, store, source, ticks, pendingClears, sync, adminWrites, hist, callRet, settings, mtime, req, auth>>

----------------------------------------------------------------------------

Next ==
    \/ AdvanceClock
    \/ \E n \in Names : ClearApply(n)
    \/ \E t \in TickIds : TickStart(t) \/ TickRead(t) \/ TickResolve(t) \/ TickWrite(t)
    \/ SyncStart \/ SyncRead \/ SyncEntry \/ SyncFinish
    \/ GetStart \/ GetEnd \/ GetPlain
    \/ RemoveSource
    \/ BootCheck \/ Migrate \/ BootSyncEnd \/ Sigint \/ ExitProcess
    \/ Wait \/ RequireAuth \/ CheckLogin \/ Logout
    \/ \E ok \in BOOLEAN : Login(ok)
    \/ \E update \in AnyUpdates(now) : AdminUpdate(update)
    \/ \E body \in AdminBodies : AdminAdd(body)
    \/ \E n \in Names, body \in AdminBodies : AdminEdit(n, body)
    \/ \E n \in Names : AdminDelete(n)
    \/ \E src \in Sources : EditSource(src)

Spec == Init /\ [][Next]_vars

----------------------------------------------------------------------------
(* The scheduler alone, on a collection a reconcile pass has filled *)

SchedulerInit ==
    /\ now = StartInstant
    /\ store = SyncedStore
    /\ source = <<EntryA, EntryB>>
    /\ ticks = [t \in TickIds |-> IdleTick]
    /\ pendingClears = [n \in Names |-> 0]
    /\ sync = IdleSync
    /\ adminWrites = 0
    /\ hist = NoHist
    /\ callRet = <<>>
    /\ settings = EmptyDoc
    /\ mtime = StartInstant
    /\ req = IdleReq
    /\ proc = "running"
    /\ auth = IdleAuth

SchedulerNext ==
    \/ AdvanceClock
    \/ \E n \in Names : ClearApply(n)
    \/ \E t \in TickIds : TickStart(t) \/ TickRead(t) \/ TickResolve(t) \/ TickWrite(t)
    \/ \E update \in AdminUpdates(now) : AdminUpdate(update)

SchedulerSpec == SchedulerInit /\ [][SchedulerNext]_vars

----------------------------------------------------------------------------
(* The scheduler on a collection that holds an expired override, the store answering in
   the end: ticks keep starting, and a call that keeps being made is accepted at last *)

\* A's override ran out at StartInstant
ExpiredStore == UpdateFacultyOverride(SyncedStore, "A", "on_leave", StartInstant, StartInstant)

SweepInit ==
    /\ now = StartInstant
    /\ store = ExpiredStore
    /\ source = <<EntryA, EntryB>>
    /\ ticks = [t \in TickIds |-> IdleTick]
    /\ pendingClears = [n \in Names |-> 0]
    /\ sync = IdleSync
    /\ adminWrites = 0
    /\ hist = NoHist
    /\ callRet = <<>>
    /\ settings = EmptyDoc
    /\ mtime = StartInstant
    /\ req = IdleReq
    /\ proc = "running"
    /\ auth = IdleAuth

SweepNext ==
    \/ \E n \in Names : ClearApply(n)
    \/ \E t \in TickIds : TickStart(t) \/ TickRead(t) \/ TickResolve(t) \/ TickWrite(t)

\* the store call of the step is accepted
Accepted(t) == ~ticks'[t].failed

ClearAccepted(n) == store' = ClearExpiredOverride(store, n, now)

SweepFairness ==
    /\ \A t \in TickIds : WF_vars(TickStart(t)) /\ WF_vars(TickResolve(t))
    /\ \A t \in TickIds : SF_vars(TickRead(t) /\ Accepted(t))
    /\ \A t \in TickIds : SF_vars(TickWrite(t) /\ Accepted(t))
    /\ \A n \in Names : SF_vars(ClearApply(n) /\ ClearAccepted(n))

SweepSpec == SweepInit /\ [][SweepNext]_vars /\ SweepFairness

----------------------------------------------------------------------------
(* The scheduler on a collection that holds an expired override, with the admin's
   override writes *)

RaceNext ==
    \/ \E n \in Names : ClearApply(n)
    \/ \E t \in TickIds : TickStart(t) \/ TickRead(t) \/ TickResolve(t) \/ TickWrite(t)
    \/ \E update \in AdminUpdates(now) : AdminUpdate(update)

RaceSpec == SweepInit /\ [][RaceNext]_vars

----------------------------------------------------------------------------
(* The scheduler and its sweeps with override writes as POST /api/update takes them *)

PartialNext ==
    \/ \E n \in Names : ClearApply(n)
    \/ \E t \in TickIds : TickStart(t) \/ TickRead(t) \/ TickResolve(t) \/ TickWrite(t)
    \/ \E update \in AnyUpdates(now) : AdminUpdate(update)

PartialSpec == SweepInit /\ [][PartialNext]_vars

----------------------------------------------------------------------------
(* The scheduler and its sweeps while an admin deletes records *)

RemovalNext ==
    \/ \E n \in Names : ClearApply(n)
    \/ \E t \in TickIds : TickStart(t) \/ TickRead(t) \/ TickResolve(t) \/ TickWrite(t)
    \/ \E n \in Names : AdminDelete(n)

RemovalSpec == SweepInit /\ [][RemovalNext]_vars

----------------------------------------------------------------------------
(* The process from startup() to process.exit: the migration or the first pass, the
   scheduler, the SIGINT handler *)

LifeInit ==
    /\ now = StartInstant
    /\ store \in {<<>>, ExpiredStore}
    /\ \/ source = <<EntryA, EntryB>> /\ mtime = StartInstant
       \/ source = <<>> /\ mtime = NullDate
    /\ ticks = [t \in TickIds |-> IdleTick]
    /\ pendingClears = [n \in Names |-> 0]
    /\ sync = IdleSync
    /\ adminWrites = 0
    /\ hist = NoHist
    /\ callRet = <<>>
    /\ settings \in {EmptyDoc, [last_faculty_sync |-> StartInstant]}
    /\ req = IdleReq
    /\ proc = "boot"
    /\ auth = IdleAuth

LifeNext ==
    \/ BootCheck \/ Migrate \/ SyncRead \/ SyncEntry \/ SyncFinish \/ BootSyncEnd
    \/ \E t \in TickIds : TickStart(t) \/ TickRead(t) \/ TickResolve(t) \/ TickWrite(t)
    \/ \E n \in Names : ClearApply(n)
    \/ Sigint \/ ExitProcess

LifeSpec == LifeInit /\ [][LifeNext]_vars

----------------------------------------------------------------------------
(* The admin's requests alone *)

SessionNext ==
    \/ Wait \/ RequireAuth \/ CheckLogin \/ Logout
    \/ \E ok \in BOOLEAN : Login(ok)

SessionSpec == SchedulerInit /\ [][SessionNext]_vars

----------------------------------------------------------------------------
(* The first pass of startup() and the passes of GET /api/faculty, with edits of the
   file *)

EditsNext ==
    \/ AdvanceClock
    \/ BootCheck \/ Migrate \/ SyncRead \/ SyncEntry \/ SyncFinish \/ BootSyncEnd
    \/ GetStart \/ GetEnd \/ GetPlain
    \/ \E src \in Sources : EditSourceLater(src)

EditsSpec == LifeInit /\ [][EditsNext]_vars

----------------------------------------------------------------------------
(* The reconcile pass alone, with admin override writes, deletes and edits of the file *)

ReconcileNext ==
    \/ AdvanceClock
    \/ SyncStart \/ SyncRead \/ SyncEntry \/ SyncFinish
    \/ \E update \in AdminUpdates(now) : AdminUpdate(update)
    \/ \E n \in Names : AdminDelete(n)
    \/ \E src \in Sources : EditSource(src)

ReconcileSpec == Init /\ [][ReconcileNext]_vars

----------------------------------------------------------------------------
(* The reconcile pass as GET /api/faculty runs it, with edits of the file *)

RequestNext ==
    \/ AdvanceClock
    \/ GetStart \/ SyncRead \/ SyncEntry \/ SyncFinish \/ GetEnd \/ GetPlain
    \/ \E src \in Sources : EditSource(src)
    \/ RemoveSource

RequestSpec == Init /\ [][RequestNext]_vars

----------------------------------------------------------------------------
(* The reconcile pass as GET /api/faculty runs it, with the admin's adds and edits *)

NamesNext ==
    \/ GetStart \/ SyncRead \/ SyncEntry \/ SyncFinish \/ GetEnd \/ GetPlain
    \/ \E src \in Sources : EditSource(src)
    \/ \E body \in {EntryA, EntryB} : AdminAdd(body)
    \/ \E n \in Names, body \in {EntryA, EntryB} : AdminEdit(n, body)

NamesSpec == Init /\ [][NamesNext]_vars

----------------------------------------------------------------------------
(* The admin routes alone, on a collection a reconcile pass has filled *)

AdminNext ==
    \/ AdvanceClock
    \/ \E update \in AnyUpdates(now) : AdminUpdate(update)
    \/ \E body \in AdminBodies : AdminAdd(body)
    \/ \E n \in Names, body \in AdminBodies : AdminEdit(n, body)
    \/ \E n \in Names : AdminDelete(n)

AdminSpec == SchedulerInit /\ [][AdminNext]_vars

----------------------------------------------------------------------------
(* getCurrentStatus called on one record of the collection at one instant *)

ClassA == ("start" :> Fmt(10, 0)) @@ ("end" :> Fmt(11, 0)) @@ ("room" :> "301")
ClassB == ("start" :> Fmt(10, 0)) @@ ("end" :> Fmt(12, 0)) @@ ("room" :> "302") @@ ("batch" :> "B1")
\* end before start
ClassReversed == ("start" :> Fmt(11, 0)) @@ ("end" :> Fmt(10, 0)) @@ ("room" :> "303")
\* "9:00" for "09:00"
ClassUnpadded == ("start" :> <<57, 58, 48, 48>>) @@ ("end" :> Fmt(11, 0)) @@ ("room" :> "304") @@ ("batch" :> "")

OnDays(x) == ("Monday" :> x) @@ ("Friday" :> x)

OverrideChoices ==
    {EmptyDoc} \cup
    { ("manualOverride" :> m) @@ ("overrideExpiry" :> e) :
        m \in {NULL, "", "on_leave"}, e \in {NullDate, At(0, 10, 30), At(5, 0, 0)} }

WeekendChoices == {EmptyDoc, "weekend" :> {"Friday"}, "weekend" :> {"Monday", "Sunday"}}

OfficeChoices ==
    {EmptyDoc} \cup
    { "officeHours" :> OnDays(o) :
        o \in { <<Fmt(9, 0), Fmt(17, 0)>>, <<Fmt(17, 0), Fmt(9, 0)>>, <<Fmt(9, 0)>> } }

ClassChoices ==
    {EmptyDoc} \cup
    { "classTimes" :> OnDays(c) :
        c \in { <<ClassA>>, <<ClassA, ClassB>>, <<ClassReversed, ClassB>>, <<ClassUnpadded, ClassB, ClassA>> } }

ResolveDocs ==
    { ("name" :> "A") @@ o @@ w @@ oh @@ ct :
        o \in OverrideChoices, w \in WeekendChoices, oh \in OfficeChoices, ct \in ClassChoices }

ResolveInstants ==
    { At(0, 8, 59), At(0, 9, 0), At(0, 10, 30), At(0, 11, 30), At(0, 16, 59), At(0, 17, 0),
      At(4, 10, 30) }

ResolveInit ==
    /\ now \in ResolveInstants
    /\ store \in {<<d>> : d \in ResolveDocs}
    /\ source = <<>>
    /\ ticks = [t \in TickIds |-> IdleTick]
    /\ pendingClears = [n \in Names |-> 0]
    /\ sync = IdleSync
    /\ adminWrites = 0
    /\ hist = NoHist
    /\ callRet = <<>>
    /\ settings = EmptyDoc
    /\ mtime = StartInstant
    /\ req = IdleReq
    /\ proc = "running"
    /\ auth = IdleAuth

\* getCurrentStatus(faculty) on the record getAllFaculty returns, with the call of line 744
CallGetCurrentStatus ==
    /\ callRet = <<>>
    /\ LET faculty == GetAllFaculty(store)[1]
       IN  /\ callRet' = <<GetCurrentStatus(faculty, now)>>
           /\ pendingClears' = IF ClearIssued(faculty, now)
                               THEN [pendingClears EXCEPT ![faculty.name] = @ + 1]
                               ELSE pendingClears
    /\ UNCHANGED <<now, store, source, ticks, sync, adminWrites, hist, settings, mtime, req, proc, auth>>

ResolveNext == CallGetCurrentStatus

ResolveSpec == ResolveInit /\ [][ResolveNext]_vars

----------------------------------------------------------------------------
(* GET /api/faculty without a file to reconcile: the list it sends (server.js:208-224) *)

\* the order localeCompare gives the names used here
Collation == <<"A", "B", "C">>

Rank(n) == CHOOSE i \in 1..Len(Collation) : Collation[i] = n

\* a.localeCompare(b): negative, zero or positive
LocaleCompare(a, b) == Rank(a) - Rank(b)

\* lines 212-220: the comparator of the sort
Compare(a, b) ==
    IF Or50(a.precedence) # Or50(b.precedence)
    THEN Or50(a.precedence) - Or50(b.precedence)
    ELSE LocaleCompare(a.name, b.name)

\* x put into the sorted list s, behind the elements that do not come after it
Insert(s, x) ==
    LET k == Cardinality({i \in 1..Len(s) : Compare(s[i], x) <= 0})
    IN  SubSeq(s, 1, k) \o <<x>> \o SubSeq(s, k + 1, Len(s))

\* Array.prototype.sort with that comparator: a stable sort
RECURSIVE SortFaculty(_)
SortFaculty(faculty) ==
    IF faculty = <<>> THEN <<>>
    ELSE Insert(SortFaculty(SubSeq(faculty, 1, Len(faculty) - 1)), faculty[Len(faculty)])

\* the precedences the documents carry
ListPrecedences == {0, 2, 50, 60}

ListNames == {"A", "B", "C"}

\* documents with the schedule of EntryA: without precedence, and with precedence 0, 2, 50, 60
ListDocs ==
    {("name" :> n) @@ MondaySchedule : n \in ListNames}
    \cup {("name" :> n) @@ MondaySchedule @@ ("precedence" :> p) :
              n \in ListNames, p \in ListPrecedences}

\* collections of two or three documents of different names
ListStores ==
    {c \in [1..2 -> ListDocs] \cup [1..3 -> ListDocs] :
        \A i, j \in DOMAIN c : i # j => c[i]["name"] # c[j]["name"]}

ListInit ==
    /\ now = StartInstant
    /\ store \in ListStores
    /\ source = <<>>
    /\ ticks = [t \in TickIds |-> IdleTick]
    /\ pendingClears = [n \in Names |-> 0]
    /\ sync = IdleSync
    /\ adminWrites = 0
    /\ hist = NoHist
    /\ callRet = <<>>
    /\ settings = EmptyDoc
    /\ mtime = NullDate
    /\ req = IdleReq
    /\ proc = "running"
    /\ auth = IdleAuth

\* lines 194-201 and 209-228 with what is sent: the sorted list, or the 500 of the catch
\* when the read rejects
GetList ==
    /\ proc \in {"running", "closing"}
    /\ req.pc = "idle"
    /\ req.answer = 0
    /\ ~(SourceExists /\ NeedsSync)
    /\ \/ /\ callRet' = <<SortFaculty(GetAllFaculty(store))>>
          /\ req' = [pc |-> "idle", jsonModified |-> mtime, ran |-> FALSE, answer |-> 200]
       \/ /\ UNCHANGED callRet
          /\ req' = [pc |-> "idle", jsonModified |-> mtime, ran |-> FALSE, answer |-> 500]
    /\ UNCHANGED <<now, store, source, ticks, pendingClears, sync, adminWrites, hist, settings, mtime, proc, auth>>

ListNext == GetList

ListSpec == ListInit /\ [][ListNext]_vars

----------------------------------------------------------------------------
(* What the claims speak of, read off the stored document itself *)

Has(d, f) == f \in DOMAIN d

\* manualOverride is set
OverrideSet(d) == Has(d, "manualOverride") /\ d["manualOverride"] \notin {NULL, ""}

ExpirySet(d) == Has(d, "overrideExpiry") /\ d["overrideExpiry"] # NullDate

\* an active override: set, and its expiry later than t
Active(d, t) == OverrideSet(d) /\ ExpirySet(d) /\ d["overrideExpiry"] > t

\* an expired override: set, and t >= its expiry
Expired(d, t) == OverrideSet(d) /\ ExpirySet(d) /\ t >= d["overrideExpiry"]

WeekendToday(d, t) == Has(d, "weekend") /\ DayOf(t) \in d["weekend"]

ClassesToday(d, t) ==
    IF Has(d, "classTimes") /\ DayOf(t) \in DOMAIN d["classTimes"]
    THEN d["classTimes"][DayOf(t)] ELSE <<>>

\* start < end and start <= ts < end
Contains(start, end, ts) == StrLess(start, end) /\ ~StrLess(ts, start) /\ StrLess(ts, end)

\* the positions of today's class intervals that contain the time of t
ClassHits(d, t) ==
    {i \in 1..Len(ClassesToday(d, t)) :
        Contains(ClassesToday(d, t)[i]["start"], ClassesToday(d, t)[i]["end"], TimeStr(t))}

FirstHit(d, t) == CHOOSE i \in ClassHits(d, t) : \A j \in ClassHits(d, t) : i <= j

OfficeToday(d, t) ==
    IF Has(d, "officeHours") /\ DayOf(t) \in DOMAIN d["officeHours"]
    THEN d["officeHours"][DayOf(t)] ELSE <<>>

OfficeNow(d, t) ==
    /\ Len(OfficeToday(d, t)) = 2
    /\ Contains(OfficeToday(d, t)[1], OfficeToday(d, t)[2], TimeStr(t))

\* a field of a class interval, null when the interval has none
ValueOrNull(cls, f) == IF Has(cls, f) /\ cls[f] # "" THEN cls[f] ELSE NULL

ComputedStatuses == {"on_weekend", "in_class", "at_dept", "off_duty"}

\* getCurrentStatus has returned
Called == callRet # <<>>

----------------------------------------------------------------------------
(* Claims on getCurrentStatus, under ResolveSpec *)

\* C1: for a record whose manualOverride is set and whose overrideExpiry is later than
\* now, getCurrentStatus returns exactly {status: manualOverride}, whatever weekend,
\* classTimes and officeHours hold.
C1_ActiveOverrideReturned ==
    (Called /\ Active(store[1], now))
        => callRet[1] = [status |-> store[1]["manualOverride"]]

\* an active override on a day of the weekend list, in a class interval, in office hours
C1_Witness ==
    /\ Called
    /\ Active(store[1], now)
    /\ WeekendToday(store[1], now)
    /\ ClassHits(store[1], now) # {}
    /\ OfficeNow(store[1], now)
    /\ callRet[1] = [status |-> "on_leave"]

\* C2: without an active override the result is the first applicable rule in the order
\* weekend, in-class, office-hours, default; a weekend day gives on_weekend whatever the
\* class and office intervals hold, and a matching class wins over matching office hours.
C2_FirstApplicableRule ==
    (Called /\ ~Active(store[1], now))
        => callRet[1].status =
              IF WeekendToday(store[1], now) THEN "on_weekend"
              ELSE IF ClassHits(store[1], now) # {} THEN "in_class"
              ELSE IF OfficeNow(store[1], now) THEN "at_dept"
              ELSE "off_duty"

\* a weekend day on which a class interval and the office interval contain the time
C2_Witness ==
    /\ Called
    /\ ~Active(store[1], now)
    /\ WeekendToday(store[1], now)
    /\ ClassHits(store[1], now) # {}
    /\ OfficeNow(store[1], now)
    /\ callRet[1] = [status |-> "on_weekend"]

\* C3: getCurrentStatus is total: on every record getAllFaculty returns, at every
\* instant, it returns one result whose status is not null and is the record's override
\* string or one of on_weekend, in_class, at_dept, off_duty.
C3_Total ==
    /\ ~Called => ENABLED CallGetCurrentStatus
    /\ Called =>
          /\ Len(callRet) = 1
          /\ callRet[1].status # NULL
          /\ \/ callRet[1].status \in ComputedStatuses
             \/ OverrideSet(store[1]) /\ callRet[1].status = store[1]["manualOverride"]

\* a document that holds a name and nothing else
C3_Witness ==
    /\ Called
    /\ DOMAIN store[1] = {"name"}
    /\ callRet[1] = [status |-> "off_duty"]

\* C4: the day's class list is scanned in list order; the first interval with
\* start < end and start <= nowTime < end decides and supplies room and batch (null when
\* it has none); an interval with start >= end never matches.
C4_FirstClassInListOrder ==
    (Called /\ ~Active(store[1], now) /\ ~WeekendToday(store[1], now))
        => IF ClassHits(store[1], now) = {}
           THEN callRet[1].status # "in_class"
           ELSE LET cls == ClassesToday(store[1], now)[FirstHit(store[1], now)]
                IN  callRet[1] = [status |-> "in_class",
                                  room   |-> ValueOrNull(cls, "room"),
                                  batch  |-> ValueOrNull(cls, "batch")]

\* two well-formed intervals contain the time: the earlier one (room 301, no batch) decides
C4_Witness ==
    /\ Called
    /\ ~Active(store[1], now)
    /\ ClassesToday(store[1], now) = <<ClassA, ClassB>>
    /\ ClassHits(store[1], now) = {1, 2}
    /\ callRet[1] = [status |-> "in_class", room |-> "301", batch |-> NULL]

\* C5: the office interval is half-open: with no active override, no weekend today and
\* no matching class, the status is at_dept exactly when the day's interval is present,
\* has start < end and start <= nowTime < end; with ["09:00","17:00"] it is at_dept at
\* 09:00 and 16:59 and not at 08:59 and 17:00.
C5_OfficeHoursHalfOpen ==
    (Called /\ ~Active(store[1], now) /\ ~WeekendToday(store[1], now)
            /\ ClassHits(store[1], now) = {})
        => /\ callRet[1].status = "at_dept" <=> OfficeNow(store[1], now)
           /\ OfficeToday(store[1], now) = <<Fmt(9, 0), Fmt(17, 0)>> =>
                 /\ now \in {At(0, 9, 0), At(0, 16, 59)} => callRet[1].status = "at_dept"
                 /\ now \in {At(0, 8, 59), At(0, 17, 0)} => callRet[1].status # "at_dept"

\* 17:00 with office hours ["09:00","17:00"]: off duty
C5_Witness ==
    /\ Called
    /\ now = At(0, 17, 0)
    /\ OfficeToday(store[1], now) = <<Fmt(9, 0), Fmt(17, 0)>>
    /\ ~Active(store[1], now) /\ ~WeekendToday(store[1], now)
    /\ ClassHits(store[1], now) = {}
    /\ callRet[1] = [status |-> "off_duty"]

\* C19 as stated: a call of getCurrentStatus, on a record with an expired override too,
\* performs no store write: it neither changes the store nor issues a write to it.
C19_ResolveIssuesNoWrite ==
    [][callRet' # callRet => (store' = store /\ pendingClears' = pendingClears)]_vars

----------------------------------------------------------------------------
(* The stored record of a name *)

Present(coll, n) == \E i \in 1..Len(coll) : Has(coll[i], "name") /\ coll[i]["name"] = n

\* the first document of that name
Stored(coll, n) ==
    coll[CHOOSE i \in 1..Len(coll) :
            /\ Has(coll[i], "name") /\ coll[i]["name"] = n
            /\ \A j \in 1..(i - 1) : ~(Has(coll[j], "name") /\ coll[j]["name"] = n)]

\* its manualOverride and overrideExpiry, a missing field read as null
OverrideOf(d) ==
    [manualOverride |-> IF Has(d, "manualOverride") THEN d["manualOverride"] ELSE NULL,
     overrideExpiry |-> IF Has(d, "overrideExpiry") THEN d["overrideExpiry"] ELSE NullDate]

NoOverride == [manualOverride |-> NULL, overrideExpiry |-> NullDate]

----------------------------------------------------------------------------
(* Claims on the scheduler, under SchedulerSpec *)

\* an execution of updateStatuses ends in this step, all its writes done
TickCompletes(t) == Busy(t) /\ ticks'[t].pc = "done" /\ ~ticks'[t].failed

\* C6 as stated: when an execution of updateStatuses that resolved a record with an
\* expired override has run to its end, the stored manualOverride and overrideExpiry of
\* that record are null.
C6_ClearedWhenTickEnds ==
    [][\A t \in TickIds : TickCompletes(t) =>
          \A n \in ticks[t].swept :
              Present(store', n) => OverrideOf(Stored(store', n)) = NoOverride]_vars

\* C6, the part the code keeps: a record whose manualOverride is set and whose overrideExpiry is not
\* later than now resolves to a schedule-derived status and a clear of its override is
\* issued, which the tick does not await; when that clear settles, either its write has
\* failed and the store is as it was, or the record's manualOverride and overrideExpiry
\* are null.
C6_ExpiredOverrideSwept ==
    [][/\ \A t \in TickIds :
            (ticks[t].pc = "resolve" /\ ticks'[t].pc = "write"
                /\ Expired(ticks[t].snapshot[ticks[t].idx], now))
            => LET n == ticks[t].snapshot[ticks[t].idx].name
               IN  /\ ticks'[t].statusObj.status \in ComputedStatuses
                   /\ pendingClears'[n] = pendingClears[n] + 1
       /\ \A n \in Names :
            pendingClears'[n] < pendingClears[n]
            => \/ store' = store
               \/ Present(store', n) /\ OverrideOf(Stored(store', n)) = NoOverride]_vars

\* the admin's override of A has been swept: the field is stored as null, no clear is in
\* flight, and the status a tick wrote for A is a schedule-derived one
C6_Witness ==
    /\ Present(store, "A")
    /\ Has(Stored(store, "A"), "manualOverride")
    /\ OverrideOf(Stored(store, "A")) = NoOverride
    /\ pendingClears["A"] = 0
    /\ Has(Stored(store, "A")["status"], "status")
    /\ Stored(store, "A")["status"].status \in ComputedStatuses
    /\ adminWrites > 0

\* C7 as stated: at no time are two executions of updateStatuses active at once.
C7_TicksNeverOverlap == Cardinality({t \in TickIds : Busy(t)}) <= 1

\* C8 as stated: a status write that fails does not abort the tick: when the tick has
\* ended, no record of its snapshot was left out.
C8_WriteFailureDoesNotAbortTick == \A t \in TickIds : ticks[t].pc = "done" => ticks[t].left = 0

----------------------------------------------------------------------------
(* Claims on the reconcile pass, under ReconcileSpec *)

\* the pass has dealt with the entry at sync.idx in this step
EntryDone == sync.pc = "loop" /\ sync'.pc = "loop" /\ sync'.idx = sync.idx + 1

\* C9: a reconcile pass preserves every override that is unexpired when the pass reads
\* the store: the override is stashed at the read, and the write for an entry of that
\* name stores the stashed manualOverride and overrideExpiry, whatever override fields
\* the entry carries; no other record's override is written by that step.
C9_UnexpiredOverridePreserved ==
    [][/\ (sync.pc = "read" /\ sync'.pc = "loop")
            => \A i \in 1..Len(store) :
                   Active(store[i], now)
                   => /\ store[i]["name"] \in DOMAIN sync'.overrideMap
                      /\ sync'.overrideMap[store[i]["name"]] = OverrideOf(store[i])
       /\ EntryDone
            => \A n \in DOMAIN sync.overrideMap :
                   Present(store, n)
                   => /\ Present(store', n)
                      /\ IF Has(sync.jsonData[sync.idx], "name")
                            /\ sync.jsonData[sync.idx]["name"] = n
                         THEN OverrideOf(Stored(store', n)) = sync.overrideMap[n]
                         ELSE OverrideOf(Stored(store', n)) = OverrideOf(Stored(store, n))]_vars

\* the pass has written A from an entry that carries the override "ext", and A still
\* holds the admin's unexpired override
C9_Witness ==
    /\ sync.pc \in {"loop", "done"}
    /\ sync.idx > 1
    /\ sync.jsonData[1] = EntryAOverride
    /\ "A" \in DOMAIN sync.overrideMap
    /\ sync.updatedCount > 0
    /\ OverrideOf(Stored(store, "A")) =
          [manualOverride |-> "on_leave", overrideExpiry |-> NextInstant(StartInstant)]

\* C10 as stated: a second pass over the unchanged file, with no write between the two
\* passes, counts zero updated and zero inserted records and leaves the store as the
\* first pass left it.
C10_SecondPassChangesNothing ==
    (sync.pc = "done" /\ hist.second /\ hist.quiet)
        => /\ sync.updatedCount = 0
           /\ sync.insertedCount = 0
           /\ store = hist.after

\* C15: a reconcile pass never deletes: a step takes a name, or a document, out of the
\* store only when it is the admin's delete, never a step of the pass, and this holds for
\* the names the file does not mention too.
C15_ReconcileNeverDeletes ==
    [][(\/ Len(store') < Len(store)
        \/ \E n \in Names : Present(store, n) /\ ~Present(store', n))
       => (adminWrites' = adminWrites + 1 /\ sync' = sync)]_vars

\* a pass over a file that names A alone has updated A and ended, and B, which an
\* earlier pass inserted, is still stored
C15_Witness ==
    /\ sync.pc = "done"
    /\ sync.jsonData = <<EntryA>>
    /\ sync.updatedCount = 1
    /\ Present(store, "A")
    /\ Present(store, "B")

\* C16 as stated: a step of a reconcile pass never writes the status field of a record
\* that is stored already, whatever the entry of the file contains.
C16_PassLeavesStatus ==
    [][(sync.pc = "loop" /\ sync' # sync)
       => \A n \in Names :
              Present(store, n)
              => /\ Present(store', n)
                 /\ Stored(store', n)["status"] = Stored(store, n)["status"]]_vars

\* the entry the pass is at has no name
AtNameless ==
    /\ sync.pc = "loop"
    /\ sync.idx <= Len(sync.jsonData)
    /\ (Has(sync.jsonData[sync.idx], "name") => sync.jsonData[sync.idx]["name"] \in {NULL, ""})

\* C20: an entry without a name is skipped and counted as skipped, no record is created
\* or changed for it, and the pass goes on to the next entry; a pass that ends has dealt
\* with every entry of the file, those after a nameless one too.
C20_NamelessEntrySkipped ==
    [][/\ (AtNameless /\ sync' # sync)
            => /\ store' = store
               /\ sync' = [sync EXCEPT !.idx = @ + 1, !.skippedCount = @ + 1]
       /\ (sync.pc = "loop" /\ sync'.pc = "done")
            => /\ sync.idx = Len(sync.jsonData) + 1
               /\ sync.insertedCount + sync.updatedCount + sync.skippedCount
                      = Len(sync.jsonData)]_vars

\* a pass over a file whose second entry has no name has ended: one entry skipped, the
\* entries before and after it written, B, the one after it, stored
C20_Witness ==
    /\ sync.pc = "done"
    /\ sync.jsonData = <<EntryAOverride, EntryNoName, EntryB>>
    /\ sync.skippedCount = 1
    /\ sync.insertedCount + sync.updatedCount = 2
    /\ Len(store) = 2
    /\ Present(store, "B")

\* C21 as stated: the record a reconcile pass inserts for a named entry has status
\* off_duty and manualOverride and overrideExpiry null.
C21_InsertedWithDefaults ==
    [][(sync.pc = "loop" /\ sync' # sync /\ Len(store') = Len(store) + 1)
       => /\ store'[Len(store')]["status"] = [str |-> "off_duty"]
          /\ OverrideOf(store'[Len(store')]) = NoOverride]_vars

\* C22 as stated: when a reconcile pass updates a stored record, the record's createdAt is
\* afterwards what it was before, whatever fields the entry carries.
C22_UpdateKeepsCreatedAt ==
    [][(sync.pc = "loop" /\ sync' # sync)
       => \A n \in Names :
              (Present(store, n) /\ Has(Stored(store, n), "createdAt"))
              => /\ Present(store', n)
                 /\ Has(Stored(store', n), "createdAt")
                 /\ Stored(store', n)["createdAt"] = Stored(store, n)["createdAt"]]_vars

\* a pass has updated a record that has a createdAt
C22_Witness ==
    /\ sync.pc = "loop"
    /\ sync.updatedCount > 0
    /\ \A i \in 1..Len(store) : Has(store[i], "createdAt")

\* C13 as stated: a pass that fails part-way leaves the store as it was before the pass,
\* nothing but the pass having written meanwhile.
C13_FailedPassLeavesNoWrites ==
    (sync.pc = "failed" /\ hist.clean) => store = hist.before

----------------------------------------------------------------------------
(* Claims on the scheduler and the changes it follows, under SchedulerSpec *)

\* C11 as stated: once an execution of updateStatuses that began after the last change of
\* an override, of a schedule or of the clock has run to its end, the stored status of
\* every record it wrote is what getCurrentStatus gives for the stored record now, and
\* stays so until the next such change.
C11_StatusFollowsResolution ==
    \A n \in hist.settled :
        Present(store, n)
        => Stored(store, n)["status"] = GetCurrentStatus(MapFaculty(Stored(store, n)), now)

----------------------------------------------------------------------------
(* Claims on the admin routes, under AdminSpec *)

\* C12 as stated: in every state of the store, every record has manualOverride set if and
\* only if it has overrideExpiry set.
C12_OverrideFieldsPaired ==
    \A i \in 1..Len(store) : OverrideSet(store[i]) <=> ExpirySet(store[i])

----------------------------------------------------------------------------
(* Claims on GET /api/faculty, under RequestSpec *)

\* C14: a reconcile pass that fails does not advance last_faculty_sync: no step that
\* leaves the pass failed writes the marker, and with the pass failed the file, while it
\* is there, is still newer than the marker, so that the next request that checks runs
\* the pass again.
C14_FailedPassKeepsMarker ==
    [][sync'.pc = "failed" => (settings' = settings /\ (SourceExists' => NeedsSync'))]_vars

\* a pass has failed, the request that ran it has been answered, and the check of the
\* next request finds the file newer than a marker an earlier pass has written
C14_Witness ==
    /\ sync.pc = "failed"
    /\ req.pc = "idle"
    /\ "last_faculty_sync" \in DOMAIN settings
    /\ SourceExists
    /\ NeedsSync

\* the file is there and no marker is recorded or the file's mtime is after the marker
SourceNewer ==
    /\ mtime # NullDate
    /\ IF Has(settings, "last_faculty_sync") THEN mtime > settings["last_faculty_sync"] ELSE TRUE

----------------------------------------------------------------------------
(* Claims on the sweep of expired overrides and on failures of the store, under
   SweepSpec *)

\* C17: a clear that the store rejects is not retried inline and leaves the expired
\* override stored; every execution of updateStatuses that resolves a record with an
\* expired override issues a clear for it; and while ticks keep running and the store
\* accepts in the end, an expired override is eventually stored as null.
C17_ExpiredOverrideEventuallyCleared ==
    /\ [][/\ \A n \in Names :
                (pendingClears'[n] < pendingClears[n] /\ ~ClearAccepted(n))
                => (store' = store /\ pendingClears'[n] = pendingClears[n] - 1)
          /\ \A t \in TickIds :
                (ticks[t].pc = "resolve" /\ ticks'[t].pc = "write"
                    /\ Expired(ticks[t].snapshot[ticks[t].idx], now))
                => pendingClears' # pendingClears]_vars
    /\ \A n \in Names :
          (Present(store, n) /\ Expired(Stored(store, n), now))
              ~> (Present(store, n) /\ OverrideOf(Stored(store, n)) = NoOverride)

\* a clear of A's override has been rejected, and a later one has stored the fields as
\* null
C17_Witness ==
    /\ "clear" \in hist.faults
    /\ Has(Stored(store, "A"), "manualOverride")
    /\ OverrideOf(Stored(store, "A")) = NoOverride

\* C18: no failure of the store stops the scheduler: a rejected snapshot read, status
\* write or clear is caught, the process lives, and whenever an execution slot is free
\* the next expiry of the interval starts a tick.
C18_SchedulerKeepsRunning ==
    /\ Alive
    /\ (\E t \in TickIds : ~Busy(t)) => ENABLED (\E t \in TickIds : TickStart(t))

\* the snapshot read, a status write and a clear have each been rejected, and a tick has
\* started since the read and the write were
C18_Witness ==
    /\ hist.faults = {"read", "write", "clear"}
    /\ ticks[1].pc = "read"
    /\ ticks[2].pc = "idle"

----------------------------------------------------------------------------
(* Claims on clearExpiredOverride and on what a tick writes, under RaceSpec *)

\* documents d and e have the same fields with the same values, the fields of fs aside
SameBut(d, e, fs) ==
    /\ (DOMAIN d) \ fs = (DOMAIN e) \ fs
    /\ \A f \in (DOMAIN d) \ fs : d[f] = e[f]

SameRecordsBut(c, d, fs) ==
    /\ Len(c) = Len(d)
    /\ \A i \in 1..Len(c) : SameBut(c[i], d[i], fs)

\* i is the place of the first document of name n
IsFirst(coll, i, n) ==
    /\ Has(coll[i], "name") /\ coll[i]["name"] = n
    /\ \A j \in 1..(i - 1) : ~(Has(coll[j], "name") /\ coll[j]["name"] = n)

\* a call of clearExpiredOverride(n) settles in this step and the store accepted its write
ClearSettles(n) == pendingClears'[n] < pendingClears[n] /\ hist'.lastClear # "rejected"

\* C24: a call of clearExpiredOverride(n) that the store accepts leaves manualOverride and
\* overrideExpiry of the record of n null whatever they were, and changes nothing else but
\* that record's updatedAt: its other fields, and every other record, are as before.
C24_ClearNullsBothFieldsOnly ==
    [][\A n \in Names :
          ClearSettles(n)
          => /\ Len(store') = Len(store)
             /\ \A i \in 1..Len(store) :
                   IF IsFirst(store, i, n)
                   THEN /\ OverrideOf(store'[i]) = NoOverride
                        /\ Has(store'[i], "manualOverride") /\ Has(store'[i], "overrideExpiry")
                        /\ SameBut(store[i], store'[i],
                                   {"manualOverride", "overrideExpiry", "updatedAt"})
                   ELSE store'[i] = store[i]]_vars

\* a clear has met a record with an override set, and the record has none now
C24_Witness ==
    /\ hist.lastClear = "set"
    /\ Present(store, "A")
    /\ OverrideOf(Stored(store, "A")) = NoOverride
    /\ Has(Stored(store, "A"), "officeHours")

\* C25: clearExpiredOverride is idempotent: two calls for a record leave what one call
\* leaves, and a call that meets a record whose override is null already changes no field
\* of any record but updatedAt.
C25_ClearIdempotent ==
    /\ [](\A n \in Names :
             ClearExpiredOverride(ClearExpiredOverride(store, n, now), n, now)
                 = ClearExpiredOverride(store, n, now))
    /\ [][\A n \in Names :
             (ClearSettles(n) /\ hist'.lastClear = "null")
             => SameRecordsBut(store, store', {"updatedAt"})]_vars

\* a second clear, issued by an execution that read the expired override before the first
\* clear settled, has met the record with its override null
C25_Witness ==
    /\ hist.lastClear = "null"
    /\ adminWrites = 0
    /\ hist.faults = {}

\* C26: a step of updateStatuses adds and removes no record and changes no field of any
\* record but status and updatedAt; a clear it issued changes none but manualOverride,
\* overrideExpiry and updatedAt; so weekend, officeHours, classTimes and precedence of
\* every record are after a tick what they were before.
C26_TickWritesStatusOnly ==
    [][/\ (ticks' # ticks) => SameRecordsBut(store, store', {"status", "updatedAt"})
       /\ (\E n \in Names : pendingClears'[n] < pendingClears[n])
          => SameRecordsBut(store, store', {"manualOverride", "overrideExpiry", "updatedAt"})]_vars

\* ticks have written a status to every record, and the records have their schedules
C26_Witness ==
    /\ Len(store) = 2
    /\ \A i \in 1..Len(store) :
          /\ Has(store[i], "status") /\ store[i]["status"] \in [status : ComputedStatuses]
          /\ Has(store[i], "officeHours")
    /\ \E i \in 1..Len(store) : Has(store[i], "precedence")
    /\ \E i \in 1..Len(store) : Has(store[i], "weekend") /\ Has(store[i], "classTimes")

\* C30 as stated: a clear never reaches a record whose override is unexpired at that
\* moment: an override the admin installed after the tick read its snapshot is still
\* stored after the tick's clear has settled.
C30_ClearSparesUnexpiredOverride ==
    [][\A n \in Names :
          (ClearSettles(n) /\ hist'.lastClear = "set")
          => ~Active(Stored(store, n), now)]_vars

----------------------------------------------------------------------------
(* Claims on startup and shutdown, under LifeSpec *)

\* startup() is at its migration or first-pass step
InStartupStep == proc \in {"boot", "migrate", "sync"}

\* C27 as stated: once the SIGINT handler has begun no execution of updateStatuses
\* starts, and when the process exits none is in flight: a tick that was running has
\* written every record of its snapshot.
C27_ShutdownDrainsTick ==
    [][/\ proc = "closing" => \A t \in TickIds : ~(~Busy(t) /\ ticks'[t].pc = "read")
       /\ (proc = "closing" /\ proc' = "exited") => \A t \in TickIds : ~Busy(t)]_vars

\* C28: while startup() is at its migration or first-pass step no execution of
\* updateStatuses has started; the step ends in the start of the scheduler whether it
\* succeeded or threw; and with the scheduler started a first execution can begin.
C28_SchedulerStartsAfterStartupStep ==
    /\ [](InStartupStep => /\ \A t \in TickIds : ticks[t] = IdleTick
                           /\ \A n \in Names : pendingClears[n] = 0)
    /\ [][(InStartupStep /\ ~InStartupStep') => proc' = "running"]_vars
    /\ []((proc = "running" /\ \A t \in TickIds : ticks[t] = IdleTick) => ENABLED TickStart(1))

\* the startup step has failed, and an execution of updateStatuses is running
C28_Witness ==
    /\ "boot" \in hist.faults
    /\ proc = "running"
    /\ \E t \in TickIds : Busy(t)

----------------------------------------------------------------------------
(* Claim on the admin's session, under SessionSpec *)

\* C29 as stated: an admin who keeps making authenticated requests never loses the
\* session: a request that verifies puts the expiry off, so that a request made before
\* the expiry the requests so far have led to is not rejected.
C29_ActiveSessionNeverExpires ==
    [][(/\ auth'.route \in {"requireAuth", "check-login"}
        /\ auth' # auth
        /\ auth.exp # NullDate
        /\ now < auth.rolling)
       => auth'.answer = 200]_vars

----------------------------------------------------------------------------
(* Claims on admin writes that meet a running reconcile pass, under ReconcileSpec *)

\* the stored override of n is unexpired and is not the one the pass stashed at its read:
\* an admin has written it since
WrittenSinceRead(n) ==
    /\ Present(store, n)
    /\ Active(Stored(store, n), now)
    /\ (n \in DOMAIN sync.overrideMap => sync.overrideMap[n] # OverrideOf(Stored(store, n)))

\* C31 as stated: an override an admin wrote between the pass's read of the store and its
\* write for that record is what the record holds after that write, not the entry's
\* values and not an older stashed override.
C31_AdminOverrideSurvivesPass ==
    [][EntryDone
       => \A n \in Names :
              (/\ Has(sync.jsonData[sync.idx], "name")
               /\ sync.jsonData[sync.idx]["name"] = n
               /\ WrittenSinceRead(n))
              => /\ Present(store', n)
                 /\ OverrideOf(Stored(store', n)) = OverrideOf(Stored(store, n))]_vars

----------------------------------------------------------------------------
(* Claim on the names of the records, under NamesSpec *)

\* C32 as stated: no two records of the store share a name, whatever the interleaving of
\* admin adds, admin renames and the inserts of reconcile passes.
C32_NamesUnique ==
    \A i, j \in 1..Len(store) :
        (i # j /\ Has(store[i], "name") /\ Has(store[j], "name"))
        => store[i]["name"] # store[j]["name"]

----------------------------------------------------------------------------
(* Claim on edits of faculty.json, under EditsSpec *)

\* every named entry of the file has a record that holds the entry's fields, the override
\* fields, status and createdAt aside
Reflects(coll, jsonData) ==
    \A i \in 1..Len(jsonData) :
        Has(jsonData[i], "name")
        => /\ Present(coll, jsonData[i]["name"])
           /\ \A f \in (DOMAIN jsonData[i])
                          \ {"manualOverride", "overrideExpiry", "status", "createdAt"} :
                  /\ Has(Stored(coll, jsonData[i]["name"]), f)
                  /\ Stored(coll, jsonData[i]["name"])[f] = jsonData[i][f]

\* C33 as stated: no edit of the file is skipped: once a pass has ended well and the
\* recorded marker is not older than the file's mtime, the store holds what the file holds
\* now, also when the file was edited while the pass ran.
C33_NoEditSkipped ==
    (/\ proc = "running"
     /\ req.pc = "idle"
     /\ sync.pc = "done"
     /\ SourceExists
     /\ Has(settings, "last_faculty_sync")
     /\ settings["last_faculty_sync"] >= mtime)
    => Reflects(store, source)

----------------------------------------------------------------------------
(* Claims on the frames of the admin routes, under AdminSpec *)

\* documents d and e agree on the fields of fs: each is in both or in neither, with one value
SameOn(d, e, fs) ==
    \A f \in fs : (Has(d, f) <=> Has(e, f)) /\ (Has(d, f) => d[f] = e[f])

\* the step is PUT /api/admin/faculty/originalName with that body, not rejected by the store
Edits(originalName, body) ==
    /\ now' = now
    /\ adminWrites' = adminWrites
    /\ store' = EditedStore(store, originalName, body, now)

\* C34: an admin edit changes the status, manualOverride, overrideExpiry and createdAt of
\* no record, whatever the body contains; with no precedence in the body it changes no
\* precedence; an edit of a name that has no record, or a rename to a name that is taken,
\* leaves the store as it was.
C34_EditKeepsDerivedFields ==
    [][\A originalName \in Names, body \in AdminBodies :
          Edits(originalName, body)
          => /\ Len(store') = Len(store)
             /\ \A i \in 1..Len(store) :
                   SameOn(store[i], store'[i],
                          {"status", "manualOverride", "overrideExpiry", "createdAt"})
             /\ ~Has(body, "precedence")
                => \A i \in 1..Len(store) : SameOn(store[i], store'[i], {"precedence"})
             /\ (~Present(store, originalName)
                 \/ (body["name"] # originalName /\ Present(store, body["name"])))
                => store' = store]_vars

\* an edit whose body carries a status and override fields has rewritten A's schedule, and
\* A has the status and the empty override it had
C34_Witness ==
    /\ Present(store, "A")
    /\ Stored(store, "A")["weekend"] = {"Sunday"}
    /\ Stored(store, "A")["status"] = [str |-> "off_duty"]
    /\ OverrideOf(Stored(store, "A")) = NoOverride
    /\ Stored(store, "A")["updatedAt"] > Stored(store, "A")["createdAt"]


\* the step is POST /api/update with that one update, accepted by the store
Updates(update) ==
    /\ now' = now
    /\ adminWrites' = adminWrites + 1
    /\ store' = BulkUpdateOverride(store, update, now)

\* C35: an override write sets manualOverride and overrideExpiry of the existing record it
\* names and of no other: the records of other names are unchanged, every record keeps
\* its schedule fields, status and precedence, and a name with no record creates none.
C35_OverrideWriteFrame ==
    [][\A update \in AnyUpdates(now) :
          Updates(update)
          => /\ Len(store') = Len(store)
             /\ \A i \in 1..Len(store) :
                   /\ store[i]["name"] # update.name => store'[i] = store[i]
                   /\ SameBut(store[i], store'[i],
                              {"manualOverride", "overrideExpiry", "updatedAt"})
             /\ Present(store, update.name)
                => OverrideOf(Stored(store', update.name))
                   = [manualOverride |-> update.manualOverride,
                      overrideExpiry |-> ToDate(update.overrideExpiry)]
             /\ ~Present(store, update.name) => store' = store]_vars

\* an override write has set A's override, and B, that it did not name, is as the pass
\* left it
C35_Witness ==
    /\ adminWrites = 1
    /\ Present(store, "A") /\ Present(store, "B")
    /\ OverrideOf(Stored(store, "A")) # NoOverride
    /\ Stored(store, "A")["updatedAt"] > Stored(store, "A")["createdAt"]
    /\ Stored(store, "B") = SyncedStore[2]

----------------------------------------------------------------------------
(* Claims on deleted records, under RemovalSpec *)

\* C36: the scheduler never re-creates a record an admin has deleted: no status write of
\* a tick and no sweep makes a name present that was absent, and none adds a document.
C36_DeletedStaysAbsent ==
    [][/\ Len(store') <= Len(store)
       /\ \A n \in Names : ~Present(store, n) => ~Present(store', n)]_vars

\* A was deleted after a tick had read it; the status write of a tick and a sweep have
\* both met no record of that name, and there is none
C36_Witness ==
    /\ adminWrites = 1
    /\ ~Present(store, "A")
    /\ "A" \in hist.missed
    /\ hist.lastClear = "absent"
    /\ Len(store) = 1

----------------------------------------------------------------------------
(* Claims on an override without expiry, under PartialSpec *)

\* manualOverride is set and overrideExpiry is null
HalfSet(d) == OverrideSet(d) /\ ~ExpirySet(d)

\* execution t resolves, in this step, a record its snapshot holds with manualOverride
\* set and overrideExpiry null
ResolvesHalfSet(t) ==
    /\ ticks[t].pc = "resolve"
    /\ ticks'[t].pc = "write"
    /\ HalfSet(ticks[t].snapshot[ticks[t].idx])

\* getCurrentStatus on such a record returns what the schedule gives and calls no clear
ResolvedFromSchedule(t) ==
    /\ ticks'[t].statusObj = ScheduleStatus(ticks[t].snapshot[ticks[t].idx], now)
    /\ pendingClears' = pendingClears

\* C37 as stated: a record with manualOverride set and overrideExpiry null is resolved
\* from its schedule, no clear is issued for it, and no step but an admin write changes
\* its override fields.
C37_HalfSetOverrideStays ==
    [][/\ \A t \in TickIds : ResolvesHalfSet(t) => ResolvedFromSchedule(t)
       /\ \A n \in Names :
             (Present(store, n) /\ HalfSet(Stored(store, n)) /\ adminWrites' = adminWrites)
             => /\ Present(store', n)
                /\ OverrideOf(Stored(store', n)) = OverrideOf(Stored(store, n))]_vars

----------------------------------------------------------------------------
(* Claims on the list GET /api/faculty sends, under ListSpec *)

\* the precedence the record counts with: its own, or 50 when it has none
PrecedenceOf(d) == IF Has(d, "precedence") THEN d["precedence"] ELSE 50

\* x does not come after y: by precedence, then by name
InOrder(x, y) ==
    \/ PrecedenceOf(x) < PrecedenceOf(y)
    \/ PrecedenceOf(x) = PrecedenceOf(y) /\ LocaleCompare(x["name"], y["name"]) <= 0

\* the list holds the records of the collection, each once
ListsAll(list, coll) ==
    /\ Len(list) = Len(coll)
    /\ \A i \in 1..Len(coll) : \E k \in 1..Len(list) : list[k].name = coll[i]["name"]

\* C38 as stated: the list that is sent holds the records in ascending precedence, a
\* record without precedence counting as 50 and equal precedences ordered by name; and
\* the status getCurrentStatus gives a record is the same whatever its precedence.
C38_ListOrderedByPrecedence ==
    /\ req.answer = 200
       => /\ ListsAll(callRet[1], store)
          /\ \A i, j \in 1..Len(callRet[1]) :
                i < j => InOrder(Stored(store, callRet[1][i].name),
                                 Stored(store, callRet[1][j].name))
    /\ \A i \in 1..Len(store), p \in ListPrecedences :
          GetCurrentStatus(MapFaculty(SetFields(store[i], [precedence |-> p])), now)
          = GetCurrentStatus(MapFaculty(store[i]), now)

====
